---- MODULE Spec2Model ----
(***************************************************************************)
(* Block lifecycle and state store of the tic-tac-toe VM.                  *)
(*   src/timestampvm/src/block/mod.rs   Block: verify / accept / reject    *)
(*   src/timestampvm/src/state/mod.rs   State: board, winners, block maps  *)
(*                                                                         *)
(* A u32 is a sequence of 32 bits, bit i of the word at position i+1, so   *)
(* that shifts drop the bits that leave the word.  A u64 height is kept    *)
(* modulo HeightMod.  An id (sha256 of the serialized block) is the tuple  *)
(* of the serialized fields: equal ids exactly for equal contents.         *)
(***************************************************************************)
EXTENDS Integers, Sequences, FiniteSets, TLC

VARIABLES
    curr_game,        \* State.curr_game: the board, a u32
    winners,          \* State.winners: Vec<u32>
    verified_blocks,  \* State.verified_blocks: id -> Block
    blk_map,          \* State.blk_map: id -> Block
    overflow_checks,  \* build profile: TRUE when integer overflow panics
    pending,          \* consensus engine: blocks verified with success, undecided
    accepted,         \* consensus engine: the blocks accepted, in order
    last,             \* the last call: operation, block, result, block status
    locks,            \* the four RwLocks of State: holders and waiters
    calls,            \* per task: the call in progress and its position
    started           \* number of calls the tasks have entered

vars == <<curr_game, winners, verified_blocks, blk_map, overflow_checks,
          pending, accepted, last, locks, calls, started>>

----------------------------------------------------------------------------
(* Bounds of the model *)

\* u64 heights are kept modulo HeightMod: the largest height is HeightMod - 1
HeightMod == 4
\* blocks the engine holds verified and undecided at one time
MaxPending == 2
\* accepts in one run of Spec and of SpecGame
MaxAccepted == 3
\* accepts in one run of SpecWin
MaxAcceptedWin == 5
\* tasks that call into the store concurrently in SpecLocks
NTasks == 2
\* calls made in one run of SpecLocks, all tasks together
MaxCalls == 3

(* Program constants *)

\* width of curr_game
BoardBits == 32

----------------------------------------------------------------------------
(* u32 arithmetic *)

Bits == 1..BoardBits

\* the u32 of a number below 2^31
U32(n) == [i \in Bits |-> IF i < BoardBits THEN (n \div (2 ^ (i - 1))) % 2 ELSE 0]

Zero32 == U32(0)

\* the literals 0b11 and 0b111
Mask2 == U32(3)

Mask3 == U32(7)

Shl(v, n) == [i \in Bits |-> IF i - n >= 1 THEN v[i - n] ELSE 0]

Shr(v, n) == [i \in Bits |-> IF i + n <= BoardBits THEN v[i + n] ELSE 0]

BitAnd(v, w) == [i \in Bits |-> IF v[i] = 1 /\ w[i] = 1 THEN 1 ELSE 0]

BitOr(v, w) == [i \in Bits |-> IF v[i] = 1 \/ w[i] = 1 THEN 1 ELSE 0]

BitNot(v) == [i \in Bits |-> 1 - v[i]]

----------------------------------------------------------------------------
(* Block *)

\* ids::Id::empty(): the id no block has
EmptyId == <<>>

\* Block::try_new / from_slice: id = sha256(bytes), bytes = the serialized
\* parent_id, height, player_move
Id(b) == <<b.parent_id, b.height, b.player_move>>

\* Block::get_move_index: player_move & 0b00001111
get_move_index(player_move) == player_move % 16

\* Block::get_player_id: player_move & 0b00010000
get_player_id(player_move) == ((player_move \div 16) % 2) * 16

----------------------------------------------------------------------------
(* State *)

\* State::default
Default ==
    [curr_game |-> Zero32, winners |-> <<>>,
     verified_blocks |-> <<>>, blk_map |-> <<>>]

\* State::get_curr_game
get_curr_game(st) == st.curr_game

\* get_winner, wrongly counting games from one
get_winner_from_one(st, i) ==
    IF i >= 1 /\ i <= Len(st.winners) THEN <<st.winners[i]>> ELSE <<>>

\* State::get_winner: Some(winners[i]) or None
get_winner(st, i) ==
    IF i < Len(st.winners) THEN <<st.winners[i + 1]>> ELSE <<>>

\* State::get_block is Ok: the verified map first, then blk_map
has_block(st, id) ==
    id \in DOMAIN st.verified_blocks \/ id \in DOMAIN st.blk_map

\* State::get_block, where it is Ok
get_block(st, id) ==
    IF id \in DOMAIN st.verified_blocks
    THEN st.verified_blocks[id]
    ELSE st.blk_map[id]

\* State::add_verified, when its future is awaited
add_verified(st, b) ==
    [st EXCEPT !.verified_blocks =
        [x \in DOMAIN st.verified_blocks \cup {Id(b)} |->
            IF x = Id(b) THEN b ELSE st.verified_blocks[x]]]

\* State::remove_verified
remove_verified(st, id) ==
    [st EXCEPT !.verified_blocks =
        [x \in DOMAIN st.verified_blocks \ {id} |-> st.verified_blocks[x]]]

\* the 2-bit slot of a cell, as a number
read_cell(board, cell) ==
    board[2 * cell + 1] + 2 * board[2 * cell + 2]

\* update_board, first part: erase the slot, then or the player id in
apply_move(board, player_move) ==
    LET intended_position == get_move_index(player_move)
        player_id == get_player_id(player_move)
        erased == BitAnd(board, BitNot(Shl(Mask2, 2 * intended_position)))
    IN  BitOr(erased, Shl(U32(player_id), 2 * intended_position))

\* update_board: legal_moves
legal_moves ==
    << <<0, 1, 2>>, <<3, 4, 5>>, <<6, 7, 8>>,
       <<0, 3, 6>>, <<1, 4, 7>>, <<2, 5, 8>>,
       <<0, 4, 8>>, <<6, 4, 2>> >>

\* update_board: one turn of the loop over legal_moves, on the board as it
\* is at that turn; acc = [board, winners, seen_zero]
check_win(acc, possible_win, player_id) ==
    LET val == acc.board
        val_1 == BitAnd(Mask2, Shr(val, 2 * possible_win[1]))
        val_2 == BitAnd(Mask2, Shr(val, 2 * possible_win[2]))
        val_3 == BitAnd(Mask2, Shr(val, 2 * possible_win[3]))
    IN  IF val_1 = val_2 /\ val_2 = val_3 /\ val_1 # Zero32
        THEN [acc EXCEPT !.winners = Append(acc.winners, player_id),
                         !.board = Zero32]
        ELSE IF val_1 = Zero32 \/ val_2 = Zero32 \/ val_3 = Zero32
             THEN [acc EXCEPT !.seen_zero = 1]
             ELSE acc

RECURSIVE win_loop(_, _, _)
\* update_board: the loop over legal_moves from turn k on
win_loop(acc, k, player_id) ==
    IF k > Len(legal_moves)
    THEN acc
    ELSE win_loop(check_win(acc, legal_moves[k], player_id), k + 1, player_id)

\* update_board, wrongly testing every triple on the board as moved, not on
\* the board as it is at that turn of the loop
update_board_snapshot(st, b) ==
    LET player_id == get_player_id(b.player_move)
        moved == apply_move(st.curr_game, b.player_move)
        won == {k \in 1..Len(legal_moves) :
                   LET t == legal_moves[k]
                       v1 == BitAnd(Mask2, Shr(moved, 2 * t[1]))
                       v2 == BitAnd(Mask2, Shr(moved, 2 * t[2]))
                       v3 == BitAnd(Mask2, Shr(moved, 2 * t[3]))
                   IN  v1 = v2 /\ v2 = v3 /\ v1 # Zero32}
    IN  [st EXCEPT !.curr_game = IF won = {} THEN moved ELSE Zero32,
                   !.winners = st.winners \o [i \in 1..Cardinality(won) |-> player_id]]

\* State::update_board
update_board(st, b) ==
    LET player_id == get_player_id(b.player_move)
        moved == apply_move(st.curr_game, b.player_move)
        acc == win_loop([board |-> moved, winners |-> st.winners, seen_zero |-> 0],
                        1, player_id)
    IN  [st EXCEPT !.curr_game = IF acc.seen_zero = 0 THEN Zero32 ELSE acc.board,
                   !.winners = acc.winners]

\* verify, wrongly applying the move it checks to the board
verify_commits(st, b, checks) ==
    IF has_block(st, Id(b))
    THEN [res |-> "Ok", st |-> st]
    ELSE IF ~has_block(st, b.parent_id)
    THEN [res |-> "UnknownParent", st |-> st]
    ELSE IF b.height = 0 /\ checks
    THEN [res |-> "Panic", st |-> st]
    ELSE IF get_block(st, b.parent_id).height # (b.height - 1) % HeightMod
    THEN [res |-> "InvalidHeight", st |-> st]
    ELSE [res |-> "Ok", st |-> update_board(st, b)]

\* verify, wrongly without the early return for an already stored block
verify_rechecks(st, b, checks) ==
    IF ~has_block(st, b.parent_id)
    THEN [res |-> "UnknownParent", st |-> st]
    ELSE IF b.height = 0 /\ checks
    THEN [res |-> "Panic", st |-> st]
    ELSE IF get_block(st, b.parent_id).height # (b.height - 1) % HeightMod
    THEN [res |-> "InvalidHeight", st |-> st]
    ELSE LET curr_box == BitAnd(Shr(get_curr_game(st),
                                    2 * get_move_index(b.player_move)), Mask3)
         IN  IF curr_box # Zero32
             THEN [res |-> "IllegalMove", st |-> st]
             ELSE [res |-> "Ok", st |-> st]

\* Block::verify.  The results are named as the errors of the lifecycle:
\* UnknownParent is get_block's "Block doesn't exist!", InvalidHeight the
\* InvalidData error, IllegalMove "INVALID PLAYER MOVE!".  self.height - 1
\* on height 0 panics in a build with overflow checks and wraps in one
\* without.  The future of add_verified is built and dropped, never
\* awaited, so nothing is inserted.
verify(st, b, checks) ==
    IF has_block(st, Id(b))
    THEN [res |-> "Ok", st |-> st]
    ELSE IF ~has_block(st, b.parent_id)
    THEN [res |-> "UnknownParent", st |-> st]
    ELSE IF b.height = 0 /\ checks
    THEN [res |-> "Panic", st |-> st]
    ELSE IF get_block(st, b.parent_id).height # (b.height - 1) % HeightMod
    THEN [res |-> "InvalidHeight", st |-> st]
    ELSE LET curr_game_read == get_curr_game(st)
             intended_position == get_move_index(b.player_move)
             curr_box == BitAnd(Shr(curr_game_read, 2 * intended_position), Mask3)
         IN  IF curr_box # Zero32
             THEN [res |-> "IllegalMove", st |-> st]
             ELSE [res |-> "Ok", st |-> st]

\* Block::accept: set_status(Accepted), then update_board
accept(st, b) == [res |-> "Ok", status |-> "Accepted", st |-> update_board(st, b)]

\* reject, wrongly undoing the game in progress
reject_clears_board(st, b) ==
    [res |-> "Ok", status |-> "Accepted",
     st |-> [remove_verified(st, Id(b)) EXCEPT !.curr_game = Zero32]]

\* reject, wrongly failing for a block that is not in the verified map
reject_strict(st, b) ==
    IF Id(b) \in DOMAIN st.verified_blocks
    THEN [res |-> "Ok", status |-> "Accepted", st |-> remove_verified(st, Id(b))]
    ELSE [res |-> "NotFound", status |-> "Accepted", st |-> st]

\* Block::reject: set_status(Accepted), then remove_verified
reject(st, b) == [res |-> "Ok", status |-> "Accepted", st |-> remove_verified(st, Id(b))]

----------------------------------------------------------------------------
(* The store and the consensus engine around it *)

Store ==
    [curr_game |-> curr_game, winners |-> winners,
     verified_blocks |-> verified_blocks, blk_map |-> blk_map]

SetStore(st) ==
    /\ curr_game' = st.curr_game
    /\ winners' = st.winners
    /\ verified_blocks' = st.verified_blocks
    /\ blk_map' = st.blk_map

\* player_move of a cell and a player: player << 4 | cell
Move(cell, player) == player * 16 + cell

Range(s) == {s[i] : i \in 1..Len(s)}

\* the block the VM commits at bootstrap, before any call of the engine
Root(h, m) == [parent_id |-> EmptyId, height |-> h, player_move |-> m]

\* moves the committed block may carry
RootMoves == {Move(0, 0), Move(3, 0)}

\* moves of Spec
Moves == {Move(1, 1), Move(2, 0), Move(3, 0)}

\* moves of SpecGame
GameMoves ==
    {Move(0, 0), Move(2, 0), Move(3, 0), Move(6, 0),
     Move(1, 1), Move(2, 1), Move(3, 1)}

\* moves of SpecWin: player 1 on cells 0..6
WinMoves == {Move(c, 1) : c \in 0..6}

Heights == 0..(HeightMod - 1)

\* the ids a block handed to verify may name as its parent: no block's id,
\* a committed block, the block accepted last
Parents ==
    {EmptyId} \cup DOMAIN blk_map
        \cup (IF accepted = <<>> THEN {} ELSE {Id(accepted[Len(accepted)])})

\* blocks the engine may hand to verify
Candidates ==
    {[parent_id |-> p, height |-> h, player_move |-> m] :
        p \in Parents, h \in Heights, m \in Moves}
        \cup {blk_map[x] : x \in DOMAIN blk_map}

\* blocks built on the committed block, one height above it
BuiltBlocks(moves) ==
    {[parent_id |-> p, height |-> (blk_map[p].height + 1) % HeightMod,
      player_move |-> m] : p \in DOMAIN blk_map, m \in moves}

\* blocks the engine may reject: a pending one, or the block of the last
\* call when that block was never verified with success or was rejected
RejectTargets ==
    pending \cup
    (IF /\ last.op \in {"verify", "reject"}
        /\ ~(last.op = "verify" /\ last.res = "Ok")
        /\ last.blk \notin Range(accepted)
     THEN {last.blk} ELSE {})

Tasks == 1..NTasks

LockNames == {"curr_game", "winners", "verified_blocks", "blk_map"}

\* RwLock::new: nobody holds the lock, nobody waits for it
FreeLocks == [l \in LockNames |-> [held |-> {}, queue |-> <<>>]]

\* a task that is in no call
IdleCall ==
    [op |-> "none", blk |-> Root(0, 0), phase |-> "none", pc |-> "idle", at |-> 0,
     k |-> 0, seen_zero |-> 0, res |-> "none", board |-> Zero32]

InitWith(heights, moves) ==
    \E h \in heights, m \in moves :
        /\ curr_game = Default.curr_game
        /\ winners = Default.winners
        /\ verified_blocks = Default.verified_blocks
        /\ blk_map = [x \in {Id(Root(h, m))} |-> Root(h, m)]
        /\ overflow_checks \in BOOLEAN
        /\ pending = {}
        /\ accepted = <<>>
        /\ last = [op |-> "init", blk |-> Root(h, m), res |-> "Ok", status |-> "Accepted"]
        /\ locks = FreeLocks
        /\ calls = [t \in Tasks |-> IdleCall]
        /\ started = 0

Init == InitWith(Heights, RootMoves)

InitGame == InitWith({0}, {Move(0, 0)})

\* the engine calls verify on a block it has not decided
Verify(b) ==
    LET out == verify(Store, b, overflow_checks)
        fresh == out.res = "Ok" /\ Id(b) \notin DOMAIN blk_map
    IN  /\ b \notin Range(accepted)
        /\ fresh /\ b \notin pending => Cardinality(pending) < MaxPending
        /\ SetStore(out.st)
        /\ pending' = IF fresh THEN pending \cup {b} ELSE pending
        /\ last' = [op |-> "verify", blk |-> b, res |-> out.res, status |-> "Processing"]
        /\ UNCHANGED <<overflow_checks, accepted, locks, calls, started>>

\* the engine calls accept on a pending block
Accept(b) ==
    LET out == accept(Store, b)
    IN  /\ b \in pending
        /\ SetStore(out.st)
        /\ pending' = pending \ {b}
        /\ accepted' = Append(accepted, b)
        /\ last' = [op |-> "accept", blk |-> b, res |-> out.res, status |-> out.status]
        /\ UNCHANGED <<overflow_checks, locks, calls, started>>

\* the engine calls reject
Reject(b) ==
    LET out == reject(Store, b)
    IN  /\ b \in RejectTargets
        /\ SetStore(out.st)
        /\ pending' = pending \ {b}
        /\ last' = [op |-> "reject", blk |-> b, res |-> out.res, status |-> out.status]
        /\ UNCHANGED <<overflow_checks, accepted, locks, calls, started>>

Next ==
    \/ \E b \in Candidates : Verify(b)
    \/ \E b \in pending : Len(accepted) < MaxAccepted /\ Accept(b)
    \/ \E b \in RejectTargets : Reject(b)

Spec == Init /\ [][Next]_vars

NextGame ==
    \/ \E b \in BuiltBlocks(GameMoves) : Verify(b)
    \/ \E b \in pending : Len(accepted) < MaxAccepted /\ Accept(b)
    \/ \E b \in RejectTargets : Reject(b)

SpecGame == InitGame /\ [][NextGame]_vars

NextWin ==
    \/ \E b \in BuiltBlocks(WinMoves) : Verify(b)
    \/ \E b \in pending : Len(accepted) < MaxAcceptedWin /\ Accept(b)
    \/ \E b \in RejectTargets : Reject(b)

SpecWin == InitGame /\ [][NextWin]_vars

\* moves on the first, a middle and the two last cells, by either player
BoardMoves == {Move(c, p) : c \in {0, 4, 7, 8}, p \in {0, 1}}

NextBoard ==
    \/ \E b \in BuiltBlocks(BoardMoves) : Verify(b)
    \/ \E b \in pending : Len(accepted) < MaxAccepted /\ Accept(b)
    \/ \E b \in RejectTargets : Reject(b)

SpecBoard == InitGame /\ [][NextBoard]_vars

----------------------------------------------------------------------------
(* What the lifecycle contract says of a move: the player of bit 4 is 0 or *)
(* 1, the marker of a player in a slot is nonzero, 1 for player 0 and 2    *)
(* for player 1, and writing a cell replaces its 2-bit slot alone.         *)

PlayerOf(player_move) == (player_move \div 16) % 2

Marker(player) == player + 1

write_cell(board, cell, value) ==
    [i \in Bits |->
        IF i = 2 * cell + 1 THEN value % 2
        ELSE IF i = 2 * cell + 2 THEN value \div 2
        ELSE board[i]]

Cells == 0..8

TripleWon(board, t) ==
    /\ read_cell(board, t[1]) # 0
    /\ read_cell(board, t[1]) = read_cell(board, t[2])
    /\ read_cell(board, t[2]) = read_cell(board, t[3])

HasWin(board) == \E k \in 1..Len(legal_moves) : TripleWon(board, legal_moves[k])

HasEmpty(board) == \E c \in Cells : read_cell(board, c) = 0

AcceptedMoves == [i \in 1..Len(accepted) |-> accepted[i].player_move]

\* the block of a verify step was unknown to the store and its parent known
VerifiedUnknownWithParent ==
    /\ last'.op = "verify"
    /\ ~has_block(Store, Id(last'.blk))
    /\ has_block(Store, last'.blk.parent_id)

VerifyFailures == {"UnknownParent", "InvalidHeight", "IllegalMove"}

----------------------------------------------------------------------------
(* Claims *)

\* C1: for a block unknown to the store, with its parent found and its
\* height parent.height + 1, verify fails with IllegalMove if and only if
\* the 2-bit slot of the board at the block's cell is nonzero; no other
\* cell's slot influences the outcome.
C1_IllegalMoveIffSlotOccupied ==
    [][ ( /\ VerifiedUnknownWithParent
          /\ last'.blk.height = get_block(Store, last'.blk.parent_id).height + 1 )
        => ( last'.res = "IllegalMove"
             <=> read_cell(curr_game, get_move_index(last'.blk.player_move)) # 0 )
      ]_vars

\* C2: for a block unknown to the store with its parent found, verify fails
\* with InvalidHeight whenever block.height # parent.height + 1, for every
\* parent height and block height, block height 0 and a parent at the
\* largest height included.
C2_InvalidHeightWheneverNotParentPlusOne ==
    [][ ( /\ VerifiedUnknownWithParent
          /\ last'.blk.height # get_block(Store, last'.blk.parent_id).height + 1 )
        => last'.res = "InvalidHeight"
      ]_vars

\* C3: when verify of a block unknown to the store succeeds, the block is
\* in the verified set afterwards, so that a lookup of its id finds it.
C3_VerifiedAfterSuccess ==
    [][ ( /\ last'.op = "verify"
          /\ ~has_block(Store, Id(last'.blk))
          /\ last'.res = "Ok" )
        => ( /\ Id(last'.blk) \in DOMAIN verified_blocks'
             /\ verified_blocks'[Id(last'.blk)] = last'.blk )
      ]_vars

\* C4: accept of a move (cell c in 0..8, player p), when the post-move
\* board has no winning triple and an empty cell, leaves the board equal to
\* the board before with cell c's slot alone replaced by p's nonzero
\* marker: the other slots unchanged, cell c occupied, winners unchanged.
C4_AcceptWritesTheMovedCellOnly ==
    [][ last'.op = "accept" =>
        LET m == last'.blk.player_move
            c == get_move_index(m)
            written == write_cell(curr_game, c, Marker(PlayerOf(m)))
            moved == apply_move(curr_game, m)
        IN  ( /\ c \in Cells
              /\ ~HasWin(written) /\ HasEmpty(written)
              /\ ~HasWin(moved) /\ HasEmpty(moved) )
            => ( /\ curr_game' = written
                 /\ read_cell(curr_game', c) # 0
                 /\ winners' = winners )
      ]_vars

CellsZeroAndOneStayEmpty ==
    /\ read_cell(curr_game, 0) = 0
    /\ read_cell(curr_game, 1) = 0

\* C7: from the empty board and no winners, accepting (cell 0, player 0),
\* (cell 1, player 1), (cell 2, player 0) in order yields cells 0, 1, 2
\* equal to 1, 2, 1, every other cell empty and no winner; bits 0-1 are 1
\* after the first accept.
C7_ThreeMovesOnBoard ==
    /\ AcceptedMoves = <<Move(0, 0)>> => read_cell(curr_game, 0) = 1
    /\ AcceptedMoves = <<Move(0, 0), Move(1, 1), Move(2, 0)>>
       => ( /\ curr_game =
                write_cell(write_cell(write_cell(Zero32, 0, 1), 1, 2), 2, 1)
            /\ winners = <<>> )

\* C8: from the empty board and no winners, once the accepted moves have
\* put player 0 on cells 0, 3 and 6, the accept completing the line leaves
\* winners equal to [0] and the board 0.
C8_ColumnOfPlayerZeroWins ==
    ( /\ Len(accepted) = 3
      /\ Range(AcceptedMoves) = {Move(0, 0), Move(3, 0), Move(6, 0)} )
    => ( winners = <<0>> /\ curr_game = Zero32 )

\* A second store, bootstrapped alike, that accepts the blocks bs in order
\* and is called for nothing else.
RECURSIVE Replay(_)
Replay(bs) ==
    IF bs = <<>>
    THEN [Default EXCEPT !.blk_map = blk_map]
    ELSE accept(Replay(SubSeq(bs, 1, Len(bs) - 1)), bs[Len(bs)]).st

\* C9: two stores that start from board 0 and no winners and accept the
\* same blocks in the same order hold the same board and the same winners:
\* whatever verify and reject calls came between the accepts of this store,
\* its board and winners are those of a store that only accepted the blocks.
C9_ReplayDeterminism ==
    LET replayed == Replay(accepted)
    IN  /\ curr_game = replayed.curr_game
        /\ winners = replayed.winners

\* Three accepts that completed a triple, then a reject.
C9_Witness ==
    /\ Len(accepted) = 3
    /\ Len(winners) = 1
    /\ last.op = "reject"

\* C10: verify never changes board, winners or the committed set, whatever
\* its outcome, and a verify that fails leaves the verified set unchanged.
C10_VerifyChangesNoCommittedState ==
    [][ last'.op = "verify" =>
        ( /\ curr_game' = curr_game
          /\ winners' = winners
          /\ blk_map' = blk_map
          /\ last'.res \in VerifyFailures => verified_blocks' = verified_blocks )
      ]_vars

\* A verify that failed with IllegalMove on a board that holds a marker.
C10_Witness ==
    /\ last.op = "verify"
    /\ last.res = "IllegalMove"
    /\ curr_game # Zero32
    /\ accepted # <<>>

\* C11: reject removes the block's id from the verified set and leaves
\* board, winners and the committed set unchanged; rejecting a block that is
\* absent from the verified set returns success and leaves the whole store
\* unchanged.
C11_RejectRemovesAndChangesNothingElse ==
    [][ last'.op = "reject" =>
        ( /\ last'.res = "Ok"
          /\ Id(last'.blk) \notin DOMAIN verified_blocks'
          /\ \A x \in DOMAIN verified_blocks \ {Id(last'.blk)} :
                 /\ x \in DOMAIN verified_blocks'
                 /\ verified_blocks'[x] = verified_blocks[x]
          /\ curr_game' = curr_game
          /\ winners' = winners
          /\ blk_map' = blk_map
          /\ Id(last'.blk) \notin DOMAIN verified_blocks
             => verified_blocks' = verified_blocks )
      ]_vars

\* A reject of a block absent from the verified set, on a board that holds
\* a marker.
C11_Witness ==
    /\ last.op = "reject"
    /\ last.res = "Ok"
    /\ Id(last.blk) \notin DOMAIN verified_blocks
    /\ last.blk \notin pending
    /\ curr_game # Zero32

\* C12: after reject returns the block's status is Rejected, and after
\* accept it is Accepted.
C12_StatusMatchesDecision ==
    /\ last.op = "reject" => last.status = "Rejected"
    /\ last.op = "accept" => last.status = "Accepted"

\* C13: after accept of a block returns success, the block's id is a key of
\* the committed set and not a key of the verified set.
C13_AcceptedIsCommittedNotVerified ==
    [][ (last'.op = "accept" /\ last'.res = "Ok") =>
        ( /\ Id(last'.blk) \in DOMAIN blk_map'
          /\ Id(last'.blk) \notin DOMAIN verified_blocks' )
      ]_vars

\* C14: verify of a block whose id is already a key of the committed set
\* returns success, whatever its parent, height or target cell, and changes
\* nothing in the store.
C14_VerifyOfCommittedBlockSucceeds ==
    [][ (last'.op = "verify" /\ Id(last'.blk) \in DOMAIN blk_map) =>
        ( /\ last'.res = "Ok"
          /\ curr_game' = curr_game
          /\ winners' = winners
          /\ verified_blocks' = verified_blocks
          /\ blk_map' = blk_map )
      ]_vars

\* A verify of the committed block, whose parent is unknown to the store,
\* at a moment when its target cell is occupied.
C14_Witness ==
    /\ last.op = "verify"
    /\ last.res = "Ok"
    /\ Id(last.blk) \in DOMAIN blk_map
    /\ ~has_block(Store, last.blk.parent_id)
    /\ read_cell(curr_game, get_move_index(last.blk.player_move)) # 0

\* C15: winners is append-only.  verify and reject never change it; an
\* accept extends it by zero or more entries at its end, changing no
\* earlier entry; an index for which get_winner returned a value returns
\* the same value in every later state; get_winner(i) finds nothing exactly
\* when i is at least the number of recorded games.
C15_WinnersAppendOnly ==
    [][ /\ last'.op \in {"verify", "reject"} => winners' = winners
        /\ Len(winners') >= Len(winners)
        /\ SubSeq(winners', 1, Len(winners)) = winners
        /\ \A i \in 0..(Len(winners') + 1) :
              /\ get_winner(Store, i) # <<>> =>
                    get_winner([winners |-> winners'], i) = get_winner(Store, i)
              /\ get_winner([winners |-> winners'], i) = <<>> <=> i >= Len(winners')
              /\ i < Len(winners') =>
                    get_winner([winners |-> winners'], i) = <<winners'[i + 1]>>
      ]_vars

\* A verify or a reject made after a game was won: winner 0 is still there.
C15_Witness ==
    /\ last.op \in {"verify", "reject"}
    /\ Len(winners) = 1
    /\ get_winner(Store, 0) = <<16>>
    /\ get_winner(Store, 1) = <<>>
    /\ curr_game = Zero32

\* triples of legal_moves that are complete on a board
WonTriples(board) == {k \in 1..Len(legal_moves) : TripleWon(board, legal_moves[k])}

\* C16: after a block b passed verify and was accepted, verify of a child
\* of b (parent_id = b's id, height = b.height + 1, target cell empty on
\* the current board) succeeds.
C16_ChildOfAcceptedBlockVerifies ==
    [][ ( /\ last'.op = "verify"
          /\ \E j \in 1..Len(accepted) :
                /\ last'.blk.parent_id = Id(accepted[j])
                /\ last'.blk.height = accepted[j].height + 1
          /\ read_cell(curr_game, get_move_index(last'.blk.player_move)) = 0 )
        => last'.res = "Ok"
      ]_vars

\* C17 as stated: an accept whose move completes several triples at once
\* appends one winners entry per completed triple and leaves the board 0.
C17_OneEntryPerCompletedTriple ==
    [][ last'.op = "accept" =>
        LET moved == apply_move(curr_game, last'.blk.player_move)
        IN  Cardinality(WonTriples(moved)) >= 2 =>
               /\ Len(winners') = Len(winners) + Cardinality(WonTriples(moved))
               /\ curr_game' = Zero32
      ]_vars

\* C17, amended: an accept whose move completes several triples at once
\* appends exactly one winners entry, the player id of the move, and leaves
\* the board 0.
C17_OneEntryPerWinningMove ==
    [][ last'.op = "accept" =>
        LET moved == apply_move(curr_game, last'.blk.player_move)
        IN  Cardinality(WonTriples(moved)) >= 2 =>
               /\ winners' = Append(winners, get_player_id(last'.blk.player_move))
               /\ curr_game' = Zero32
      ]_vars

\* The last accepted move completed two triples on the board it was
\* applied to.
C17_Witness ==
    /\ last.op = "accept"
    /\ accepted # <<>>
    /\ last.blk = accepted[Len(accepted)]
    /\ LET before == Replay(SubSeq(accepted, 1, Len(accepted) - 1))
           moved == apply_move(before.curr_game, last.blk.player_move)
       IN  /\ Cardinality(WonTriples(moved)) >= 2
           /\ Len(winners) = Len(before.winners) + 1
           /\ curr_game = Zero32

\* distinct blocks on the same parent at the same height that target the
\* same cell
Siblings(a, b) ==
    /\ a # b
    /\ a.parent_id = b.parent_id
    /\ a.height = b.height
    /\ get_move_index(a.player_move) = get_move_index(b.player_move)

\* C18: of two sibling blocks that target the same cell and both passed
\* verify, at most one succeeds at accept-time: once one is accepted,
\* accept of the other does not succeed and changes neither board nor
\* winners.
C18_SecondSiblingAcceptFails ==
    [][ ( /\ last'.op = "accept"
          /\ last'.blk \in pending
          /\ \E j \in 1..Len(accepted) : Siblings(accepted[j], last'.blk) )
        => ( /\ last'.res # "Ok"
             /\ curr_game' = curr_game
             /\ winners' = winners )
      ]_vars

----------------------------------------------------------------------------
(* Concurrent calls: the tokio RwLocks of State *)

\* a request is compatible with the holders: readers share, a writer is alone
Compatible(held, mode) ==
    IF mode = "w" THEN held = {} ELSE \A h \in held : h[2] = "r"

Holds(lk, l, t) == \E h \in lk[l].held : h[1] = t

Waits(lk, l, t) == \E i \in 1..Len(lk[l].queue) : lk[l].queue[i][1] = t

\* RwLock::read / RwLock::write: the permit is taken at once when nobody
\* waits and the holders allow it; otherwise the task queues, first come
\* first served
Acquire(lk, l, mode, t) ==
    IF lk[l].queue = <<>> /\ Compatible(lk[l].held, mode)
    THEN [lk EXCEPT ![l].held = @ \cup {<<t, mode>>}]
    ELSE [lk EXCEPT ![l].queue = Append(@, <<t, mode>>)]

RECURSIVE Grant(_)
\* permits handed to the waiters at the head of the queue
Grant(q) ==
    IF q.queue # <<>> /\ Compatible(q.held, Head(q.queue)[2])
    THEN Grant([held |-> q.held \cup {Head(q.queue)}, queue |-> Tail(q.queue)])
    ELSE q

\* a guard is dropped
Release(lk, l, t) ==
    [lk EXCEPT ![l] = Grant([held |-> {h \in lk[l].held : h[1] # t},
                             queue |-> lk[l].queue])]

\* every guard of a task is dropped (end of the function that took them)
ReleaseAll(lk, t) ==
    [l \in LockNames |->
        IF Holds(lk, l, t)
        THEN Grant([held |-> {h \in lk[l].held : h[1] # t}, queue |-> lk[l].queue])
        ELSE lk[l]]

\* locks a read takes, in the order it takes them, each held to the end
get_curr_game_locks == <<"curr_game">>

get_winner_locks_board_too == <<"winners", "curr_game">>

get_winner_locks == <<"winners">>

get_block_locks == <<"verified_blocks", "blk_map">>

\* update_board, wrongly dropping the board guard after writing the move
\* and taking it again for the evaluation
hold_board_retaken(lk, t) ==
    Acquire(Release(lk, "curr_game", t), "curr_game", "w", t)

\* update_board: the write guard of curr_game taken at its start lives to
\* the end of the function
hold_board(lk, t) == lk

\* the locks of the read a call is in
PhaseLocks(c) ==
    CASE c.phase = "get_curr_game" -> get_curr_game_locks
      [] c.phase = "get_winner" -> get_winner_locks
      [] c.phase \in {"get_block", "self", "parent"} -> get_block_locks
      [] c.phase = "board" -> get_curr_game_locks
      [] OTHER -> <<>>

\* the first lock of a read is requested
StartRead(lk, c, t) ==
    IF PhaseLocks(c) = <<>> THEN lk ELSE Acquire(lk, PhaseLocks(c)[1], "r", t)

\* a block built on the committed block of InitGame
LB(m) == [parent_id |-> Id(Root(0, 0)), height |-> 1, player_move |-> m]

\* the accepts made before the concurrent calls start
LockHistory == <<LB(Move(3, 1)), LB(Move(2, 1))>>

\* blocks handed to verify, and blocks looked up, by the concurrent calls
LockVerifyBlocks == {LB(Move(3, 0))}

LockLookups == {Root(0, 0)}

\* a task enters a call
Begin(t, op, b, phase, k) ==
    LET c == [IdleCall EXCEPT !.op = op, !.blk = b, !.phase = phase,
                              !.pc = "locking", !.k = k]
    IN  [c EXCEPT !.at = IF PhaseLocks(c) = <<>> THEN 0 ELSE 1]

\* a call returns: the task is idle again and keeps the board the call
\* read, if it read one
Finish(c, res, board, k) == [IdleCall EXCEPT !.board = board]

CanStart(t) == calls[t].pc = "idle" /\ started < MaxCalls

\* a decision on the block is being carried out
InDecision(b) ==
    \E t \in Tasks : calls[t].pc # "idle" /\ calls[t].op \in {"accept", "reject"}
                     /\ calls[t].blk = b

\* a read at its last lock: what it returns, or the next read of verify
ReadOutcome(t) ==
    LET c == calls[t]
        key == IF c.phase = "parent" THEN c.blk.parent_id ELSE Id(c.blk)
        released == ReleaseAll(locks, t)
        done(res, board, k) ==
            [call |-> Finish(c, res, board, k), locks |-> released, pending |-> pending]
        goto(phase) ==
            LET d == [c EXCEPT !.phase = phase, !.at = 1]
            IN  [call |-> d, locks |-> StartRead(released, d, t), pending |-> pending]
    IN  CASE c.phase = "get_curr_game" -> done("Ok", get_curr_game(Store), 0)
          [] c.phase = "get_winner" ->
                LET w == get_winner(Store, c.k)
                IN  IF w = <<>> THEN done("None", Zero32, 0) ELSE done("Some", Zero32, w[1])
          [] c.phase = "get_block" ->
                done(IF has_block(Store, key) THEN "Ok" ELSE "NotFound", Zero32, 0)
          [] c.phase = "self" ->
                IF has_block(Store, key) THEN done("Ok", Zero32, 0) ELSE goto("parent")
          [] c.phase = "parent" ->
                IF ~has_block(Store, key) THEN done("UnknownParent", Zero32, 0)
                ELSE IF c.blk.height = 0 /\ overflow_checks THEN done("Panic", Zero32, 0)
                ELSE IF get_block(Store, key).height # (c.blk.height - 1) % HeightMod
                THEN done("InvalidHeight", Zero32, 0)
                ELSE goto("board")
          [] c.phase = "board" ->
                LET read == get_curr_game(Store)
                    curr_box == BitAnd(Shr(read, 2 * get_move_index(c.blk.player_move)),
                                       Mask3)
                    fresh == /\ curr_box = Zero32
                             /\ c.blk \notin Range(accepted)
                             /\ ~InDecision(c.blk)
                IN  [call |-> Finish(c, IF curr_box # Zero32 THEN "IllegalMove" ELSE "Ok",
                                     read, 0),
                     locks |-> released,
                     pending |-> IF fresh THEN pending \cup {c.blk} ELSE pending]

\* get_curr_game, get_winner, get_block and the reads of verify: with the
\* lock it asked for in hand, a read asks for its next lock, or reads,
\* drops its guards and returns
ReadStep(t) ==
    LET c == calls[t]
        seq == PhaseLocks(c)
        key == IF c.phase = "parent" THEN c.blk.parent_id ELSE Id(c.blk)
        found_verified == /\ c.phase \in {"get_block", "self", "parent"}
                          /\ c.at = 1
                          /\ key \in DOMAIN verified_blocks
    IN  /\ c.pc = "locking"
        /\ c.op \in {"get_curr_game", "get_winner", "get_block", "verify"}
        /\ c.at = 0 \/ Holds(locks, seq[c.at], t)
        /\ IF c.at < Len(seq) /\ ~found_verified
           THEN /\ locks' = Acquire(locks, seq[c.at + 1], "r", t)
                /\ calls' = [calls EXCEPT ![t].at = c.at + 1]
                /\ UNCHANGED pending
           ELSE LET out == ReadOutcome(t)
                IN  /\ locks' = out.locks
                    /\ calls' = [calls EXCEPT ![t] = out.call]
                    /\ pending' = out.pending
        /\ UNCHANGED <<curr_game, winners, verified_blocks, blk_map,
                       overflow_checks, accepted, last, started>>

\* a task calls get_curr_game, get_winner or get_block
StartGetCurrGame(t) ==
    LET c == Begin(t, "get_curr_game", Root(0, 0), "get_curr_game", 0)
    IN  /\ CanStart(t)
        /\ started' = started + 1
        /\ calls' = [calls EXCEPT ![t] = c]
        /\ locks' = StartRead(locks, c, t)
        /\ UNCHANGED <<curr_game, winners, verified_blocks, blk_map,
                       overflow_checks, pending, accepted, last>>

StartGetWinner(t, i) ==
    LET c == Begin(t, "get_winner", Root(0, 0), "get_winner", i)
    IN  /\ CanStart(t)
        /\ started' = started + 1
        /\ calls' = [calls EXCEPT ![t] = c]
        /\ locks' = StartRead(locks, c, t)
        /\ UNCHANGED <<curr_game, winners, verified_blocks, blk_map,
                       overflow_checks, pending, accepted, last>>

StartGetBlock(t, b) ==
    LET c == Begin(t, "get_block", b, "get_block", 0)
    IN  /\ CanStart(t)
        /\ started' = started + 1
        /\ calls' = [calls EXCEPT ![t] = c]
        /\ locks' = StartRead(locks, c, t)
        /\ UNCHANGED <<curr_game, winners, verified_blocks, blk_map,
                       overflow_checks, pending, accepted, last>>

\* a task calls verify: its first read is get_block of the block's own id
StartVerify(t, b) ==
    LET c == Begin(t, "verify", b, "self", 0)
    IN  /\ CanStart(t)
        /\ started' = started + 1
        /\ b \notin Range(accepted)
        /\ ~InDecision(b)
        /\ calls' = [calls EXCEPT ![t] = c]
        /\ locks' = StartRead(locks, c, t)
        /\ UNCHANGED <<curr_game, winners, verified_blocks, blk_map,
                       overflow_checks, pending, accepted, last>>

RECURSIVE loop_until_win(_, _, _)
\* update_board: the loop over legal_moves from turn k up to the first
\* completed triple, where the task awaits the winners lock
loop_until_win(acc, k, player_id) ==
    IF k > Len(legal_moves) THEN [acc |-> acc, k |-> k, win |-> FALSE]
    ELSE IF TripleWon(acc.board, legal_moves[k])
         THEN [acc |-> acc, k |-> k, win |-> TRUE]
         ELSE CHOOSE r \in {loop_until_win(next, k + 1, player_id) :
                               next \in {check_win(acc, legal_moves[k], player_id)}} : TRUE

\* the engine calls accept on a pending block: set_status, then
\* update_board asks for the write lock of curr_game
StartAccept(t, b) ==
    /\ CanStart(t)
    /\ started' = started + 1
    /\ b \in pending
    /\ pending' = pending \ {b}
    /\ calls' = [calls EXCEPT ![t] = [Begin(t, "accept", b, "update_board", 0)
                                        EXCEPT !.at = 1]]
    /\ locks' = Acquire(locks, "curr_game", "w", t)
    /\ UNCHANGED <<curr_game, winners, verified_blocks, blk_map,
                   overflow_checks, accepted, last>>

\* where the loop stops next: at a completed triple, with the winners lock
\* asked for, or at its end
loop_on(c, lk, t, acc, k) ==
    LET r == loop_until_win(acc, k, get_player_id(c.blk.player_move))
    IN  [call |-> [c EXCEPT !.pc = IF r.win THEN "win" ELSE "finish",
                            !.k = r.k,
                            !.seen_zero = r.acc.seen_zero],
         locks |-> IF r.win THEN Acquire(lk, "winners", "w", t) ELSE lk]

\* update_board: curr_board.bitand_assign(erase), curr_board.bitor_assign(set),
\* then the loop
after_move(t) ==
    CHOOSE out \in
        {LET on == loop_on(calls[t], hold_board(locks, t), t,
                           [board |-> moved, winners |-> winners, seen_zero |-> 0], 1)
         IN  [board |-> moved, call |-> on.call, locks |-> on.locks] :
            moved \in {apply_move(curr_game, calls[t].blk.player_move)}} : TRUE

\* update_board: curr_winners.push(player_id), the winners guard dropped,
\* *curr_board = 0, then the loop goes on with the next triple
after_win(t) ==
    loop_on(calls[t], Release(locks, "winners", t), t,
            [board |-> Zero32, winners |-> winners, seen_zero |-> calls[t].seen_zero],
            calls[t].k + 1)

\* update_board with the board guard: the move is written to the board and
\* the triples are read up to the first completed one
AcceptMove(t) ==
    LET c == calls[t]
        out == after_move(t)
    IN  /\ c.op = "accept"
        /\ c.pc = "locking"
        /\ Holds(locks, "curr_game", t)
        /\ curr_game' = out.board
        /\ calls' = [calls EXCEPT ![t] = out.call]
        /\ locks' = out.locks
        /\ UNCHANGED <<winners, verified_blocks, blk_map, overflow_checks,
                       pending, accepted, last, started>>

\* update_board with the winners guard: the winner is pushed, the guard of
\* winners dropped, the board reset, and the loop goes on
AcceptWin(t) ==
    LET c == calls[t]
        out == after_win(t)
    IN  /\ c.op = "accept"
        /\ c.pc = "win"
        /\ Holds(locks, "winners", t)
        /\ Holds(locks, "curr_game", t)
        /\ winners' = Append(winners, get_player_id(c.blk.player_move))
        /\ curr_game' = Zero32
        /\ calls' = [calls EXCEPT ![t] = out.call]
        /\ locks' = out.locks
        /\ UNCHANGED <<verified_blocks, blk_map, overflow_checks,
                       pending, accepted, last, started>>

\* update_board after the loop: the draw test, the board guard dropped,
\* accept returns
AcceptFinish(t) ==
    LET c == calls[t]
    IN  /\ c.op = "accept"
        /\ c.pc = "finish"
        /\ Holds(locks, "curr_game", t)
        /\ curr_game' = IF c.seen_zero = 0 THEN Zero32 ELSE curr_game
        /\ locks' = Release(locks, "curr_game", t)
        /\ accepted' = Append(accepted, c.blk)
        /\ calls' = [calls EXCEPT ![t] = Finish(c, "Ok", Zero32, 0)]
        /\ UNCHANGED <<winners, verified_blocks, blk_map, overflow_checks,
                       pending, last, started>>

\* the engine calls reject on a pending block: set_status, then
\* remove_verified asks for the write lock of verified_blocks
StartReject(t, b) ==
    /\ CanStart(t)
    /\ started' = started + 1
    /\ b \in pending
    /\ pending' = pending \ {b}
    /\ calls' = [calls EXCEPT ![t] = [Begin(t, "reject", b, "remove_verified", 0)
                                        EXCEPT !.at = 1]]
    /\ locks' = Acquire(locks, "verified_blocks", "w", t)
    /\ UNCHANGED <<curr_game, winners, verified_blocks, blk_map,
                   overflow_checks, accepted, last>>

\* remove_verified with the guard: the id is removed, reject returns
RejectStep(t) ==
    LET c == calls[t]
    IN  /\ c.op = "reject"
        /\ c.pc = "locking"
        /\ Holds(locks, "verified_blocks", t)
        /\ verified_blocks' = remove_verified(Store, Id(c.blk)).verified_blocks
        /\ locks' = Release(locks, "verified_blocks", t)
        /\ calls' = [calls EXCEPT ![t] = Finish(c, "Ok", Zero32, 0)]
        /\ UNCHANGED <<curr_game, winners, blk_map, overflow_checks,
                       pending, accepted, last, started>>

\* the store after the accepts of LockHistory, with two blocks verified
\* and undecided
InitLocks ==
    /\ blk_map = [x \in {Id(Root(0, 0))} |-> Root(0, 0)]
    /\ curr_game = Replay(LockHistory).curr_game
    /\ winners = Replay(LockHistory).winners
    /\ verified_blocks = Default.verified_blocks
    /\ overflow_checks = TRUE
    /\ pending = {LB(Move(1, 1)), LB(Move(6, 1))}
    /\ accepted = LockHistory
    /\ last = [op |-> "verify", blk |-> LB(Move(1, 1)), res |-> "Ok",
               status |-> "Processing"]
    /\ locks = FreeLocks
    /\ calls = [t \in Tasks |-> IdleCall]
    /\ started = 0

\* the next step of the call a task is in
TaskStep(t) ==
    \/ AcceptMove(t)
    \/ AcceptWin(t)
    \/ AcceptFinish(t)
    \/ RejectStep(t)
    \/ ReadStep(t)

NextLocks ==
    \/ \E t \in Tasks, b \in pending : StartAccept(t, b)
    \/ \E t \in Tasks, b \in pending : StartReject(t, b)
    \/ \E t \in Tasks, b \in LockVerifyBlocks : StartVerify(t, b)
    \/ \E t \in Tasks : StartGetCurrGame(t)
    \/ \E t \in Tasks : StartGetWinner(t, 0)
    \/ \E t \in Tasks, b \in LockLookups : StartGetBlock(t, b)
    \/ \E t \in Tasks : AcceptMove(t)
    \/ \E t \in Tasks : AcceptWin(t)
    \/ \E t \in Tasks : AcceptFinish(t)
    \/ \E t \in Tasks : RejectStep(t)
    \/ \E t \in Tasks : ReadStep(t)

\* while some task can take the next step of its call, a step of some call
\* is eventually taken: the executor polls woken tasks.  Calls are bounded,
\* so this is enough for every task to get its turn.
SpecLocks ==
    InitLocks /\ [][NextLocks]_vars /\ WF_vars(\E t \in Tasks : TaskStep(t))

\* the store state SpecLocks starts from
LocksInitReached ==
    /\ accepted = LockHistory
    /\ pending = {LB(Move(1, 1)), LB(Move(6, 1))}
    /\ curr_game = Replay(LockHistory).curr_game
    /\ winners = <<>>
    /\ last = [op |-> "verify", blk |-> LB(Move(1, 1)), res |-> "Ok",
               status |-> "Processing"]

\* the orders in which the blocks of a sequence can be arranged
Orders(bs) ==
    {p \in [1..Len(bs) -> Range(bs)] : \A i, j \in 1..Len(bs) : p[i] = p[j] => i = j}

\* the accepts made by the concurrent calls, in the order they returned
ConcurrentAccepts == SubSeq(accepted, Len(LockHistory) + 1, Len(accepted))

AcceptInProgress == \E t \in Tasks : calls[t].op = "accept" /\ calls[t].pc # "idle"

\* a board no sequence of whole accepts leaves behind: a completed triple,
\* or all nine cells occupied
Intermediate(board) == HasWin(board) \/ ~HasEmpty(board)

\* C19: accept applies its board update as one critical section.  No
\* get_curr_game (called directly or by verify) returns an intermediate
\* board, whatever the interleaving; and when no accept is in progress,
\* board and winners are those of the concurrent accepts executed one
\* after the other in some order.
C19_AcceptIsOneCriticalSection ==
    /\ \A t \in Tasks : calls[t].pc = "idle" => ~Intermediate(calls[t].board)
    /\ ~AcceptInProgress =>
          \E p \in Orders(ConcurrentAccepts) :
              LET seq == Replay(LockHistory \o p)
              IN  curr_game = seq.curr_game /\ winners = seq.winners

\* An accept holds the board write lock with a completed triple on the
\* board in memory and awaits the winners lock, while another task's
\* get_curr_game or accept waits for the board lock.
C19_Witness ==
    \E t, u \in Tasks :
        /\ calls[t].op = "accept"
        /\ calls[t].pc = "win"
        /\ Intermediate(curr_game)
        /\ Holds(locks, "curr_game", t)
        /\ calls[u].op \in {"get_curr_game", "accept"}
        /\ Waits(locks, "curr_game", u)

\* C20: under fair scheduling every call that was started completes.
C20_EveryCallCompletes ==
    \A t \in Tasks : (calls[t].pc # "idle") ~> (calls[t].pc = "idle")

\* An accept holds the board lock and waits for the winners lock, which a
\* get_winner of another task holds.
C20_Witness ==
    \E t, u \in Tasks :
        /\ t # u
        /\ calls[t].op = "accept"
        /\ Holds(locks, "curr_game", t)
        /\ Waits(locks, "winners", t)
        /\ calls[u].op = "get_winner"
        /\ Holds(locks, "winners", u)

\* positions of the two bits of a cell's slot in the board
SlotBits(cell) == {2 * cell + 1, 2 * cell + 2}

\* positions of the 18 bits of the nine slots (bits 0..17 of the word)
CellBits == UNION {SlotBits(c) : c \in Cells}

\* C21: after any sequence of accepts of moves on cells 0..8 only the bits
\* of the nine slots can be set in the board, and an accept of a move on
\* cell c changes no bit outside the slot of c, unless it resets the board
\* to 0.
C21_BoardWellFormed ==
    [][ last'.op = "accept" =>
        LET cell == get_move_index(last'.blk.player_move)
        IN  /\ \A i \in Bits \ CellBits : curr_game'[i] = 0
            /\ \/ curr_game' = Zero32
               \/ \A i \in Bits \ SlotBits(cell) : curr_game'[i] = curr_game[i]
      ]_vars

====
